---- MODULE Spec2Model ----
(***************************************************************************)
(* Model of the dcleaderboard report engine (processing.py) and of the     *)
(* site builder's entry points (build.py).                                 *)
(*                                                                         *)
(* Python strings are modelled as sequences of one-character strings, so   *)
(* that formatting, parsing, regular expressions and glob patterns are     *)
(* computed character by character.                                        *)
(***************************************************************************)
EXTENDS Integers, Sequences, FiniteSets, TLC

VARIABLES
    all_lead_days,   \* get_lead_days_for_display: the argument all_lead_days
    max_count,       \* get_lead_days_for_display: the argument max_count
    selected,        \* get_lead_days_for_display: the returned list
    lead_pc,         \* "input" while the argument list is built, "done" after the call
    results_dir,     \* the results directory: its files (name, JSON content) in glob order
    df,              \* the DataFrame: the list of its rows
    items,           \* the items generate_report_items has yielded
    report_pc,       \* "input", then "loaded" (df is built), then "reported"
    user_results_dir,     \* render_site_from_results_dir: the directory results_dir names
    package_results_dir,  \* the directory "results" of the package (the benchmarks)
    output_site_dir,      \* the output directory of the site and its three files
    results_files,        \* render_site_from_results: the argument results_files
    include_benchmarks,   \* render_site_from_results: the argument include_benchmarks
    results_paths,        \* render_site_from_results: the final list of results files
    tmp_results_dir,      \* the files copied into the temporary results directory
    raised,               \* the exception the call raised, "" if it returned
    build_pc              \* "input", then the entry point that was called

lead_vars == <<all_lead_days, max_count, selected, lead_pc>>

report_vars == <<results_dir, df, items, report_pc>>

build_vars == <<user_results_dir, package_results_dir, output_site_dir, results_files,
                include_benchmarks, results_paths, tmp_results_dir, raised, build_pc>>

vars == <<all_lead_days, max_count, selected, lead_pc, results_dir, df, items, report_pc,
          user_results_dir, package_results_dir, output_site_dir, results_files,
          include_benchmarks, results_paths, tmp_results_dir, raised, build_pc>>

----------------------------------------------------------------------------
(* Characters and strings *)

\* F applied to the value of a: a is evaluated once, before F uses it.
Bind(F(_), a) == CHOOSE r \in {F(x) : x \in {a}} : TRUE

\* A stable sort of seq by a strict order, as list.sort() and sorted() do it:
\* the element at rank r has r - 1 elements before it.
SortedBy(Less(_, _), seq) ==
    Bind(LAMBDA s :
            [r \in 1..Len(s) |->
                s[CHOOSE i \in 1..Len(s) :
                    Cardinality({j \in 1..Len(s) :
                        Less(s[j], s[i]) \/ (~Less(s[i], s[j]) /\ j < i)}) = r - 1]],
         seq)

\* The characters used by the model, in code point order (str comparison).
Alphabet ==
    <<" ", "-", ".", "0", "1", "2", "3", "4", "5", "6", "7", "8", "9",
      "A", "B", "C", "D", "E", "F", "G", "H", "I", "J", "K", "L", "M",
      "N", "O", "P", "Q", "R", "S", "T", "U", "V", "W", "X", "Y", "Z", "_",
      "a", "b", "c", "d", "e", "f", "g", "h", "i", "j", "k", "l", "m",
      "n", "o", "p", "q", "r", "s", "t", "u", "v", "w", "x", "y", "z">>

\* ord(c), as the rank of c among the characters of the model.
OrdOf == [c \in {Alphabet[i] : i \in 1..Len(Alphabet)} |->
            CHOOSE i \in 1..Len(Alphabet) : Alphabet[i] = c]

Ord(c) == OrdOf[c]

DigitChars == <<"0", "1", "2", "3", "4", "5", "6", "7", "8", "9">>

IsDigit(c) == c \in {"0", "1", "2", "3", "4", "5", "6", "7", "8", "9"}

DigitValue(c) == Ord(c) - Ord("0")

\* str < str in Python: lexicographic by code point, a proper prefix is smaller.
StrLess(a, b) ==
    \E k \in 1..Len(b) :
        /\ k - 1 <= Len(a)
        /\ \A j \in 1..(k - 1) : a[j] = b[j]
        /\ (k - 1 = Len(a) \/ Ord(a[k]) < Ord(b[k]))

\* str(n) for a natural number.
RECURSIVE NatToStr(_)
NatToStr(n) ==
    IF n < 10 THEN <<DigitChars[n + 1]>>
    ELSE NatToStr(n \div 10) \o <<DigitChars[(n % 10) + 1]>>

\* str(n) for an integer, as an f-string formats it.
IntToStr(n) == IF n < 0 THEN <<"-">> \o NatToStr(0 - n) ELSE NatToStr(n)

\* int(s) for a string of decimal digits.
RECURSIVE DigitsToInt(_)
DigitsToInt(s) ==
    IF s = <<>> THEN 0
    ELSE DigitsToInt(SubSeq(s, 1, Len(s) - 1)) * 10 + DigitValue(s[Len(s)])

\* re.search(r"(\d+)", s): the position of the first digit of s at or after
\* position i, 0 if there is none.
DigitPosFrom(s, i) ==
    IF \E k \in i..Len(s) : IsDigit(s[k])
    THEN CHOOSE k \in i..Len(s) : IsDigit(s[k]) /\ \A j \in i..(k - 1) : ~IsDigit(s[j])
    ELSE 0

FirstDigitPos(s) == DigitPosFrom(s, 1)

\* The last position of the greedy digit run that starts at position i.
DigitRunEnd(s, i) ==
    CHOOSE k \in i..Len(s) :
        /\ \A j \in i..k : IsDigit(s[j])
        /\ (k = Len(s) \/ ~IsDigit(s[k + 1]))

HasNumber(s) == FirstDigitPos(s) # 0

\* int(re.search(r"(\d+)", s).group(1)), for a string that has a digit.
NumberOf(s) ==
    Bind(LAMBDA i : DigitsToInt(SubSeq(s, i, DigitRunEnd(s, i))), FirstDigitPos(s))

----------------------------------------------------------------------------
(* processing.py: get_lead_days_for_display *)

\* "Lead day " and "unknown"
LeadDayPrefix == <<"L", "e", "a", "d", " ", "d", "a", "y", " ">>

Unknown == <<"u", "n", "k", "n", "o", "w", "n">>

\* The lead_day label load_data builds from an entry's lead_time.
LeadDayLabel(lead_time) == LeadDayPrefix \o IntToStr(lead_time + 1)

\* (num, ld) < (num, ld) as Python compares tuples.
PairLess(p, q) == p[1] < q[1] \/ (p[1] = q[1] /\ StrLess(p[2], q[2]))

\* list.sort() on the list of (num, ld) tuples.
SortPairs(pairs) == SortedBy(PairLess, pairs)

\* Lines 82-86: the (number, label) tuples of the labels that hold a digit.
ExtractNums(lds) ==
    Bind(LAMBDA with_num : [i \in 1..Len(with_num) |-> <<NumberOf(with_num[i]), with_num[i]>>],
         SelectSeq(lds, HasNumber))

SortOff(pairs) == pairs

\* Line 88.
SortLeadDays(pairs) == SortPairs(pairs)

AddLeadDayOneOff(pairs) == <<>>

\* Lines 93-97: the first tuple whose number is 1, if there is one.
AddLeadDayOne(pairs) ==
    IF \E i \in 1..Len(pairs) : pairs[i][1] = 1
    THEN <<pairs[CHOOSE i \in 1..Len(pairs) :
                    pairs[i][1] = 1 /\ \A j \in 1..(i - 1) : pairs[j][1] # 1][2]>>
    ELSE <<>>

TakesLeadDayNoLimit(num, sel, mc) == num % 2 = 1 /\ num # 1

\* Line 101: the condition under which the second loop appends a label.
TakesLeadDay(num, sel, mc) == num % 2 = 1 /\ num # 1 /\ Len(sel) < mc

\* Lines 100-102.
AddOddLeadDays(pairs, sel, mc) ==
    LET after[k \in 0..Len(pairs)] ==
            IF k = 0 THEN sel
            ELSE Bind(LAMBDA before :
                        IF TakesLeadDay(pairs[k][1], before, mc)
                        THEN Append(before, pairs[k][2]) ELSE before,
                      after[k - 1])
    IN  after[Len(pairs)]

\* Lines 105-106.
RemoveLast(sel, mc) == IF Len(sel) > mc THEN SubSeq(sel, 1, Len(sel) - 1) ELSE sel

SelectLeadDays(lead_days_with_nums, mc) ==
    Bind(LAMBDA with_one : AddOddLeadDays(lead_days_with_nums, with_one, mc),
         AddLeadDayOne(lead_days_with_nums))

get_lead_days_for_display(lds, mc) ==
    Bind(LAMBDA sel : RemoveLast(sel, mc),
         Bind(LAMBDA lead_days_with_nums : SelectLeadDays(lead_days_with_nums, mc),
              SortLeadDays(ExtractNums(lds))))

----------------------------------------------------------------------------
(* processing.py: get_depth_order, get_variable_type,                      *)
(* sort_variables_by_type_and_depth                                        *)

UpperChars == {Alphabet[i] : i \in OrdOf["A"]..OrdOf["Z"]}

LowerChars == {Alphabet[i] : i \in OrdOf["a"]..OrdOf["z"]}

IsUpper(c) == c \in UpperChars

IsLower(c) == c \in LowerChars

\* str.lower() and str.upper() on one character.
LowerChar(c) == IF IsUpper(c) THEN Alphabet[Ord(c) + (Ord("a") - Ord("A"))] ELSE c

UpperChar(c) == IF IsLower(c) THEN Alphabet[Ord(c) - (Ord("a") - Ord("A"))] ELSE c

Lower(s) == [i \in 1..Len(s) |-> LowerChar(s[i])]

Upper(s) == [i \in 1..Len(s) |-> UpperChar(s[i])]

\* str.title(): a letter that follows a letter is lowered, any other letter is raised.
Title(s) ==
    [i \in 1..Len(s) |->
        IF i > 1 /\ (IsUpper(s[i - 1]) \/ IsLower(s[i - 1]))
        THEN LowerChar(s[i]) ELSE UpperChar(s[i])]

\* \w of a regular expression.
IsWordChar(c) == IsUpper(c) \/ IsLower(c) \/ IsDigit(c) \/ c = "_"

\* \b before position i of s (i in 1..Len(s) + 1).
WordBoundary(s, i) ==
    LET before == i > 1 /\ IsWordChar(s[i - 1])
        after == i <= Len(s) /\ IsWordChar(s[i])
    IN  before # after

\* Whether the literal lit occurs in s at position i.
LiteralAt(s, i, lit) ==
    /\ i + Len(lit) - 1 <= Len(s)
    /\ \A k \in 1..Len(lit) : s[i + k - 1] = lit[k]

Surface == <<"s", "u", "r", "f", "a", "c", "e">>

\* The length of the match of a pattern of get_variable_type at position i of s,
\* 0 when it does not match there.
MatchLen(pattern, s, i) ==
    CASE pattern = "\\bsurface\\b" ->
            IF WordBoundary(s, i) /\ LiteralAt(s, i, Surface)
               /\ WordBoundary(s, i + Len(Surface))
            THEN Len(Surface) ELSE 0
      [] pattern = "\\d+m\\b" ->
            IF IsDigit(s[i])
            THEN LET j == DigitRunEnd(s, i)
                 IN  IF LiteralAt(s, j + 1, <<"m">>) /\ WordBoundary(s, j + 2)
                     THEN j + 2 - i ELSE 0
            ELSE 0
      [] pattern = "\\d+_m\\b" ->
            IF IsDigit(s[i])
            THEN LET j == DigitRunEnd(s, i)
                 IN  IF LiteralAt(s, j + 1, <<"_", "m">>) /\ WordBoundary(s, j + 3)
                     THEN j + 3 - i ELSE 0
            ELSE 0
      [] pattern = "_surface\\b" ->
            IF LiteralAt(s, i, <<"_">> \o Surface) /\ WordBoundary(s, i + 1 + Len(Surface))
            THEN 1 + Len(Surface) ELSE 0
      [] pattern = "_+" ->
            IF s[i] = "_"
            THEN (CHOOSE j \in i..Len(s) :
                     /\ \A k \in i..j : s[k] = "_"
                     /\ (j = Len(s) \/ s[j + 1] # "_")) + 1 - i
            ELSE 0

\* re.sub(pattern, repl, s), from position i on: the leftmost matches, not overlapping.
ReSubFrom(pattern, repl, s) ==
    LET from[i \in 1..(Len(s) + 1)] ==
            IF i > Len(s) THEN <<>>
            ELSE Bind(LAMBDA n : IF n > 0 THEN repl \o from[i + n]
                                 ELSE <<s[i]>> \o from[i + 1],
                      MatchLen(pattern, s, i))
    IN  from[1]

ReSub(pattern, repl, string) == Bind(LAMBDA s : ReSubFrom(pattern, repl, s), string)

\* The part of s that str.strip(chars) keeps: from its first to its last
\* character that is not in chars.
Stripped(s, chars) ==
    IF \A i \in 1..Len(s) : s[i] \in chars THEN <<>>
    ELSE SubSeq(s,
                CHOOSE i \in 1..Len(s) : s[i] \notin chars /\ \A j \in 1..(i - 1) : s[j] \in chars,
                CHOOSE i \in 1..Len(s) : s[i] \notin chars /\ \A j \in (i + 1)..Len(s) : s[j] \in chars)

\* str.strip(chars) for a set of characters.
Strip(string, chars) == Bind(LAMBDA s : Stripped(s, chars), string)

\* "x in s" for strings.
Contains(s, lit) == \E i \in 1..Len(s) : LiteralAt(s, i, lit)

\* re.search(r"(\d+)m", s): the first digit run that an m follows, as its
\* <<first, last>> positions; <<0, 0>> if there is none.
DepthMatches(s, i) == IsDigit(s[i]) /\ LiteralAt(s, DigitRunEnd(s, i) + 1, <<"m">>)

DepthMatchFrom(s, i) ==
    IF \E k \in i..Len(s) : DepthMatches(s, k)
    THEN Bind(LAMBDA k : <<k, DigitRunEnd(s, k)>>,
              CHOOSE k \in i..Len(s) :
                  DepthMatches(s, k) /\ \A j \in i..(k - 1) : ~DepthMatches(s, j))
    ELSE <<0, 0>>

NoDepth == 999

\* Lines 32-37, for the lowered name.
DepthOrder(variable_lower, depth_match) ==
    IF Contains(variable_lower, Surface) THEN 0
    ELSE IF depth_match # <<0, 0>>
         THEN DigitsToInt(SubSeq(variable_lower, depth_match[1], depth_match[2]))
         ELSE NoDepth

get_depth_order(variable_name) ==
    Bind(LAMBDA variable_lower :
            Bind(LAMBDA depth_match : DepthOrder(variable_lower, depth_match),
                 DepthMatchFrom(variable_lower, 1)),
         Lower(variable_name))

\* Lines 46-56: the patterns are removed one after the other.
CleanedVar(variable_lower) ==
    Strip(Strip(ReSub("_+", <<"_">>,
                  ReSub("_surface\\b", <<>>,
                    ReSub("\\d+_m\\b", <<>>,
                      ReSub("\\d+m\\b", <<>>,
                        ReSub("\\bsurface\\b", <<>>, variable_lower))))),
                {"_"}),
          {" "})

\* Line 59.
CleanedOrLower(cleaned_var, variable_lower) ==
    IF cleaned_var = <<>> THEN variable_lower ELSE cleaned_var

get_variable_type(variable_name) ==
    Bind(LAMBDA variable_lower :
            Bind(LAMBDA cleaned_var : CleanedOrLower(cleaned_var, variable_lower),
                 CleanedVar(variable_lower)),
         Lower(variable_name))

\* Lines 65-68: sort_key(var), the tuple (type, depth, var).
sort_key(var) == <<get_variable_type(var), get_depth_order(var), var>>

\* key < key as Python compares the (type, depth, var) tuples.
SortKeyLess(a, b) ==
    \/ StrLess(a[1], b[1])
    \/ a[1] = b[1] /\ a[2] < b[2]
    \/ a[1] = b[1] /\ a[2] = b[2] /\ StrLess(a[3], b[3])

SortKeys(keys) == SortedBy(SortKeyLess, keys)

\* sorted(variables, key=sort_key): the keys are computed once, then sorted.
sort_variables_by_type_and_depth(variables) ==
    Bind(LAMBDA keys : [i \in 1..Len(keys) |-> keys[i][3]],
         SortKeys(Bind(LAMBDA vs : [i \in 1..Len(vs) |-> sort_key(vs[i])], variables)))

----------------------------------------------------------------------------
(* Sequences, and the numbers of a table *)

Range(seq) == {seq[i] : i \in 1..Len(seq)}

\* pandas unique(): the distinct values in the order they first appear.
\* The elements of s at the positions where it shows a value for the first time.
FirstOccurrences(s) ==
    SelectSeq([i \in 1..Len(s) |-> <<s[i], \A j \in 1..(i - 1) : s[j] # s[i]>>],
              LAMBDA e : e[2])

Unique(seq) ==
    Bind(LAMBDA first : [i \in 1..Len(first) |-> first[i][1]],
         Bind(FirstOccurrences, seq))

SortStringsOff(seq) == seq

\* sorted() on a list of strings.
SortStrings(seq) == SortedBy(StrLess, seq)

\* The concatenation of a list of lists.
ConcatAll(seqs) ==
    Bind(LAMBDA ss :
            LET upto[k \in 0..Len(ss)] == IF k = 0 THEN <<>> ELSE upto[k - 1] \o ss[k]
            IN  upto[Len(ss)],
         seqs)

\* sum() of a list of integers.
SumSeq(seq) ==
    Bind(LAMBDA s :
            LET upto[k \in 0..Len(s)] == IF k = 0 THEN 0 ELSE upto[k - 1] + s[k]
            IN  upto[Len(s)],
         seq)

Abs(n) == IF n < 0 THEN 0 - n ELSE n

GcdOf[a \in Nat, b \in Nat] == IF b = 0 THEN a ELSE GcdOf[b, a % b]

Gcd(a, b) == GcdOf[a, b]

\* A number of a table is a fraction <<n, d>> in lowest terms with d > 0 (the
\* model's scores are integers, so every mean and every percent difference is
\* a fraction), or one of the three special floats, written with d = 0.
NaN == <<0, 0>>

Inf == <<1, 0>>

NegInf == <<0 - 1, 0>>

\* The fraction n / d (d # 0) in lowest terms, g being gcd(|n|, |d|).
Reduced(n, d, g) ==
    IF d < 0 THEN <<(0 - n) \div g, (0 - d) \div g>> ELSE <<n \div g, d \div g>>

Frac(n, d) ==
    Bind(LAMBDA nd : Reduced(nd[1], nd[2], Gcd(Abs(nd[1]), Abs(nd[2]))), <<n, d>>)

IsFrac(x) == x[2] # 0

\* a < b for two numbers that are not NaN.
NumLess(a, b) ==
    IF a[2] # 0 /\ b[2] # 0 THEN a[1] * b[2] < b[1] * a[2]
    ELSE IF a[2] = 0 /\ b[2] = 0 THEN a[1] < b[1]
    ELSE IF a[2] = 0 THEN a[1] < 0
    ELSE b[1] > 0

NumAbs(a) == <<Abs(a[1]), a[2]>>

----------------------------------------------------------------------------
(* processing.py: load_data *)

\* A JSON object's optional member is the set of its values: empty when the
\* key is absent.  dict.get(key, default):
Get(member, default) == IF member = {} THEN default ELSE CHOOSE x \in member : TRUE

\* Path.glob(prefix + "*" + suffix) on one file name.
GlobMatch(prefix, suffix, name) ==
    /\ Len(name) >= Len(prefix) + Len(suffix)
    /\ SubSeq(name, 1, Len(prefix)) = prefix
    /\ SubSeq(name, Len(name) - Len(suffix) + 1, Len(name)) = suffix

DotJson == <<".", "j", "s", "o", "n">>

ResultsUnderscore == <<"r", "e", "s", "u", "l", "t", "s", "_">>

\* Lines 138-153: the rows of a list-format result.
ListRows(result, model, lead_day, ref_alias, dataset_name) ==
    [i \in 1..Len(result) |->
        [model |-> model,
         metric |-> Get(result[i].Metric, Unknown),
         lead_day |-> lead_day,
         variable |-> Get(result[i].Variable, Unknown),
         score |-> Get(result[i].Value, 0),
         ref_alias |-> ref_alias,
         dataset |-> dataset_name]]

\* Lines 156-168: the rows of a dict-format result, a list of
\* (metric_name, list of (variable, score)) in the order of the JSON text.
DictRows(result, model, lead_day, ref_alias, dataset_name) ==
    ConcatAll([m \in 1..Len(result) |->
        [v \in 1..Len(result[m][2]) |->
            [model |-> model,
             metric |-> result[m][1],
             lead_day |-> lead_day,
             variable |-> result[m][2][v][1],
             score |-> result[m][2][v][2],
             ref_alias |-> ref_alias,
             dataset |-> dataset_name]]])

EntryModelOfDataset(entry, model_key, dataset_name) == Get(entry.model, dataset_name)

\* Line 130: model = entry.get("model", model_key).
EntryModel(entry, model_key, dataset_name) == Get(entry.model, model_key)

\* Lines 128-168: the rows of one entry.  entry.result is absent, a list, a
\* dict or another JSON value.
EntryRows(entry, model_key, dataset_name) ==
    LET model == EntryModel(entry, model_key, dataset_name)
        ref_alias == Get(entry.ref_alias, Unknown)
        lead_day == IF entry.lead_time = {} THEN Unknown
                    ELSE LeadDayLabel(Get(entry.lead_time, 0))
    IN  CASE entry.kind = "list" -> ListRows(entry.result, model, lead_day, ref_alias, dataset_name)
          [] entry.kind = "dict" -> DictRows(entry.result, model, lead_day, ref_alias, dataset_name)
          [] OTHER -> <<>>

\* Lines 125-168: the rows of one key of "results".
KeyRows(key, dataset_name) ==
    IF key.is_list
    THEN ConcatAll([e \in 1..Len(key.entries) |->
             EntryRows(key.entries[e], key.key, dataset_name)])
    ELSE <<>>

HasResultsKey(content) == content.results # {}

\* Line 121.
HasBothKeys(content) == content.dataset # {} /\ content.results # {}

\* Lines 117-168: the rows of one file.
FileRows(content) ==
    IF HasBothKeys(content)
    THEN LET results == Get(content.results, <<>>)
         IN  ConcatAll([k \in 1..Len(results) |->
                 KeyRows(results[k], Get(content.dataset, <<>>))])
    ELSE <<>>

\* Line 113: the files of the directory that match "*.json".
JsonFiles(dir) == SelectSeq(dir, LAMBDA f : GlobMatch(<<>>, DotJson, f.name))

\* The frame load_data returns: the list of its rows (the empty frame has none).
load_data(dir) ==
    LET files == JsonFiles(dir)
    IN  ConcatAll([f \in 1..Len(files) |-> FileRows(files[f].content)])

----------------------------------------------------------------------------
(* processing.py: generate_report_items *)

Glonet == <<"g", "l", "o", "n", "e", "t">>

\* Lines 19-25, as a list of (key, display name) pairs.
METRICS_NAMES ==
    <<<<<<"r", "m", "s", "e">>,
        <<"R", "o", "o", "t", " ", "M", "e", "a", "n", " ", "S", "q", "u", "a", "r", "e", "d", " ", "E", "r", "r", "o", "r">>>>,
      <<<<"r", "m", "s", "d">>,
        <<"R", "o", "o", "t", " ", "M", "e", "a", "n", " ", "S", "q", "u", "a", "r", "e", "d", " ", "D", "e", "v", "i", "a", "t", "i", "o", "n">>>>,
      <<<<"r", "m", "s", "d", "_", "g", "e", "o", "s", "t", "r", "o", "p", "h", "i", "c", "_", "c", "u", "r", "r", "e", "n", "t", "s">>,
        <<"R", "M", "S", "D", " ", "o", "f", " ", "G", "e", "o", "s", "t", "r", "o", "p", "h", "i", "c", " ", "C", "u", "r", "r", "e", "n", "t", "s">>>>,
      <<<<"r", "m", "s", "d", "_", "m", "l", "d">>,
        <<"R", "M", "S", "D", " ", "o", "f", " ", "M", "i", "x", "e", "d", " ", "L", "a", "y", "e", "r", " ", "D", "e", "p", "t", "h">>>>,
      <<<<"l", "a", "g", "r", "a", "n", "g", "i", "a", "n">>,
        <<"L", "a", "g", "r", "a", "n", "g", "i", "a", "n", " ", "a", "n", "a", "l", "y", "s", "i", "s">>>>>>

\* dict.get(key, default) on a list of (key, value) pairs.
DictGet(dict, key, default) ==
    IF \E i \in 1..Len(dict) : dict[i][1] = key
    THEN dict[CHOOSE i \in 1..Len(dict) : dict[i][1] = key][2]
    ELSE default

\* A yielded ("markdown", text) item; the text is a template and what is
\* formatted into it.
Markdown(template, arg) == [type |-> "markdown", template |-> template, arg |-> arg]

Spacer90Off == Markdown("<div style=\"height: 50px;\"></div>", <<>>)

Spacer90 == Markdown("<div style=\"height: 90px;\"></div>", <<>>)

\* The no-data message of line 216, written without its accents.
NoDataFound == Markdown("## Aucune donnee trouvee dans les fichiers JSON", <<>>)

Spacer50 == Markdown("<div style=\"height: 50px;\"></div>", <<>>)

\* frame[col] as a list.
Column(frame, col) == [i \in 1..Len(frame) |-> frame[i][col]]

\* The number of lead days generate_report_items asks for (line 223).
DisplayLeadDays == 4

\* The number of lead days line 290 falls back to.
FirstAvailable == 4

\* Lines 302-304: one cell of pivot_table(..., values="score", aggfunc="mean").
PivotCell(sub, model, column) ==
    Bind(LAMBDA scores : IF scores = <<>> THEN NaN ELSE Frac(SumSeq(scores), Len(scores)),
         Column(SelectSeq(sub, LAMBDA r : r.model = model /\ r.variable = column[1]
                                          /\ r.lead_day = column[2]), "score"))

\* Lines 306-316: the (variable, lead day) columns that exist, in the order of
\* ordered_variables, then of common_leads.
NewColumns(sub, ordered_variables, common_leads) ==
    Bind(LAMBDA present :
            ConcatAll([v \in 1..Len(ordered_variables) |->
                SelectSeq([l \in 1..Len(common_leads) |->
                              <<ordered_variables[v], common_leads[l]>>],
                          LAMBDA c : c \in present)]),
         {<<sub[i].variable, sub[i].lead_day>> : i \in 1..Len(sub)})

PivotTable(sub, index, new_columns) ==
    [index |-> index,
     columns |-> new_columns,
     values |-> [m \in Range(index) |->
                    [c \in Range(new_columns) |-> PivotCell(sub, m, c)]]]

\* Lines 302-316: the pivot table, its columns in the order of new_columns.
Pivot(sub, ordered_variables, common_leads) ==
    Bind(LAMBDA v : PivotTable(sub, v[1], v[2]),
         <<SortStrings(Unique(Column(sub, "model"))),
           NewColumns(sub, ordered_variables, common_leads)>>)

\* (p - r) / r * 100 for two numbers p and r, the difference of p and r being
\* diff / (p[2] * r[2]).
PercentOf(p, r, diff) ==
    IF r[1] = 0
    THEN (IF diff = 0 THEN NaN ELSE IF diff > 0 THEN Inf ELSE NegInf)
    ELSE Frac(100 * diff * r[2], p[2] * r[2] * r[1])

\* (p - r) / r * 100 in float arithmetic: NaN when either is missing or both
\* are zero, an infinity when only r is zero.
Percent(p, r) ==
    IF ~IsFrac(p) \/ ~IsFrac(r) THEN NaN
    ELSE PercentOf(p, r, p[1] * r[2] - r[1] * p[2])

\* Line 329: the reference model first, the others in the order of the index.
NewOrder(index, reference_model) ==
    <<reference_model>> \o SelectSeq(index, LAMBDA m : m # reference_model)

RefValuesOfFirstRow(values, index, reference_model) == values[index[1]]

\* Line 331: ref_values = pivot.loc[reference_model].
RefValues(values, index, reference_model) == values[reference_model]

\* Lines 332-336: the percent difference of every cell to its reference value.
PercentDiffTo(pivot, ref_values) ==
    [m \in Range(pivot.index) |->
        [c \in Range(pivot.columns) |->
            Bind(LAMBDA pr : Percent(pr[1], pr[2]), <<pivot.values[m][c], ref_values[c]>>)]]

\* Lines 328-336.
PercentDiff(pivot, reference_model) ==
    IF reference_model \in Range(pivot.index)
    THEN PercentDiffTo(pivot, RefValues(pivot.values, pivot.index, reference_model))
    ELSE [m \in Range(pivot.index) |-> [c \in Range(pivot.columns) |-> <<0, 1>>]]

\* max() of a non-empty set of numbers that are not NaN.
NumMax(set) == CHOOSE x \in set : \A y \in set : ~NumLess(x, y)

\* Lines 340-346: the absolute values of the rows below the reference row
\* that are not NaN.
NonRefNumbers(index, columns, percent_diff) ==
    {NumAbs(x) : x \in {y \in {percent_diff[index[i]][c] :
                                   i \in 2..Len(index), c \in Range(columns)} : y # NaN}}

AbsMaxWithoutFloor(index, columns, percent_diff, has_ref) ==
    IF has_ref /\ Len(index) > 1
    THEN Bind(LAMBDA numbers : IF numbers # {} THEN NumMax(numbers) ELSE <<2, 1>>,
              NonRefNumbers(index, columns, percent_diff))
    ELSE <<2, 1>>

\* Lines 338-348: the half-width of the colour scale.
AbsMax(index, columns, percent_diff, has_ref) ==
    IF has_ref /\ Len(index) > 1
    THEN Bind(LAMBDA numbers : IF numbers # {} THEN NumMax(numbers \cup {<<2, 1>>})
                               ELSE <<2, 1>>,
              NonRefNumbers(index, columns, percent_diff))
    ELSE <<2, 1>>

\* Lines 180-188: the style of one cell.
color_cells(percent, absmax) ==
    IF percent = NaN THEN "" ELSE "background-color"

\* Line 350: norm = plt.Normalize(-absmax, absmax).
Normalize(absmax) == [vmin |-> <<-absmax[1], absmax[2]>>, vmax |-> absmax]

\* Lines 350-423: the styled table and the spacer that follows it.
StyledTable(pivot, index, percent_diff, absmax, reference_model) ==
    <<[type |-> "styler",
       index |-> index,
       columns |-> pivot.columns,
       values |-> pivot.values,
       percent_diff |-> percent_diff,
       absmax |-> absmax,
       norm |-> Normalize(absmax),
       style |-> [m \in Range(index) |->
                     [c \in Range(pivot.columns) |->
                         color_cells(percent_diff[m][c], absmax)]],
       bold |-> reference_model],
      Spacer50>>

\* Lines 318-423, for a pivot table that has rows.
PivotItems(pivot, reference_model, has_ref) ==
    Bind(LAMBDA v :
            Bind(LAMBDA absmax : StyledTable(pivot, v[1], v[2], absmax, reference_model),
                 AbsMax(v[1], pivot.columns, v[2], has_ref)),
         <<IF has_ref THEN NewOrder(pivot.index, reference_model) ELSE pivot.index,
           PercentDiff(pivot, reference_model)>>)

\* Lines 298-423: the items of one variable group whose sub-frame is not empty.
TableItems(sub, var_group, common_leads, reference_model) ==
    Bind(LAMBDA pivot :
            IF Len(pivot.index) = 0
            THEN <<Markdown("*No data to display.*", <<>>)>>
            ELSE PivotItems(pivot, reference_model, reference_model \in Range(pivot.index)),
         Bind(LAMBDA present_vars :
                 Pivot(sub, SelectSeq(var_group, LAMBDA v : v \in present_vars), common_leads),
              Range(Column(sub, "variable"))))

\* Line 281: the key of the sort, the number of the label.
NumberLess(a, b) == NumberOf(a) < NumberOf(b)

\* Lines 280-283: sorted(..., key=the label's number); the sort is stable.
SortByNumber(seq) == SortedBy(NumberLess, seq)

\* Lines 286-290.
CommonLeads(lead_days, available_leads) ==
    Bind(LAMBDA in_both :
            IF in_both = <<>>
            THEN SubSeq(available_leads, 1,
                        IF Len(available_leads) < FirstAvailable
                        THEN Len(available_leads) ELSE FirstAvailable)
            ELSE in_both,
         SelectSeq(lead_days, LAMBDA ld : ld \in Range(available_leads)))

\* Lines 280-423: the items of a group whose first sub-frame is not empty.
SubItems(sub, var_group, common_leads, reference_model) ==
    Bind(LAMBDA sub2 :
            IF Len(sub2) = 0
            THEN <<Markdown("*No data available for selected lead days.*", <<>>)>>
            ELSE TableItems(sub2, var_group, common_leads, reference_model),
         SelectSeq(sub, LAMBDA r : r.lead_day \in Range(common_leads)))

\* Lines 266-423: the items of one variable group.
GroupItems(ref_metric_df, var_type, var_group, lead_days, reference_model) ==
    <<Markdown("#### {var_type} Variables", Title(var_type))>>
    \o Bind(LAMBDA sub :
               IF Len(sub) = 0
               THEN <<Markdown("*No data available for these variables and lead days.*", <<>>)>>
               ELSE Bind(LAMBDA common_leads :
                            SubItems(sub, var_group, common_leads, reference_model),
                         Bind(LAMBDA available_leads : CommonLeads(lead_days, available_leads),
                              SortByNumber(Unique(Column(sub, "lead_day"))))),
            SelectSeq(ref_metric_df,
                      LAMBDA r : r.variable \in Range(var_group)
                                 /\ r.lead_day \in Range(lead_days)))

\* Lines 259-263: the variables of each type, the types in the order they
\* first appear; var_type[i] is the type of metric_variables[i].
GroupByType(metric_variables, var_type, types) ==
    [t \in 1..Len(types) |->
        <<types[t],
          ConcatAll([i \in 1..Len(metric_variables) |->
              IF var_type[i] = types[t] THEN <<metric_variables[i]>> ELSE <<>>])>>]

\* Lines 258-263.
VariablesByType(metric_variables) ==
    Bind(LAMBDA var_type :
            Bind(LAMBDA types : GroupByType(metric_variables, var_type, types),
                 Unique(var_type)),
         [i \in 1..Len(metric_variables) |-> get_variable_type(metric_variables[i])])

\* Lines 266-423: the items of the variable groups, one group after the other.
GroupsItems(ref_metric_df, variables_by_type, lead_days, reference_model) ==
    ConcatAll([g \in 1..Len(variables_by_type) |->
        GroupItems(ref_metric_df, variables_by_type[g][1], variables_by_type[g][2],
                   lead_days, reference_model)])

\* Lines 244-423: the items of one metric of one reference dataset.
MetricItems(ref_df, metric, lead_days, reference_model) ==
    <<Markdown("### Metric: {metric_name}", DictGet(METRICS_NAMES, metric, metric))>>
    \o Bind(LAMBDA ref_metric_df :
               Bind(LAMBDA variables_by_type :
                       GroupsItems(ref_metric_df, variables_by_type, lead_days, reference_model),
                    Bind(VariablesByType,
                         sort_variables_by_type_and_depth(
                             Unique(Column(ref_metric_df, "variable"))))),
            SelectSeq(ref_df, LAMBDA r : r.metric = metric))

\* Lines 236-241: the reference model of one reference dataset.
ReferenceModel(ref_df) ==
    Bind(LAMBDA datasets_in_ref :
            IF Glonet \in Range(datasets_in_ref) THEN Glonet ELSE datasets_in_ref[1],
         Unique(Column(ref_df, "dataset")))

\* Lines 244-423: the items of the metrics, one metric after the other.
MetricsItems(ref_df, metrics, lead_days, reference_model) ==
    ConcatAll([k \in 1..Len(metrics) |->
        MetricItems(ref_df, metrics[k], lead_days, reference_model)])

\* Lines 229-423: the items of one reference dataset.
RefAliasItems(frame, ref_alias, lead_days) ==
    <<Markdown("## Reference dataset: {ref_alias}", Upper(ref_alias))>>
    \o Bind(LAMBDA ref_df :
               Bind(LAMBDA v : MetricsItems(ref_df, v[1], lead_days, v[2]),
                    <<SortStrings(Unique(Column(ref_df, "metric"))), ReferenceModel(ref_df)>>),
            SelectSeq(frame, LAMBDA r : r.ref_alias = ref_alias))

\* Lines 219-423: the items of the reference datasets, one after the other.
RefAliasesItems(frame, ref_aliases, lead_days) ==
    ConcatAll([a \in 1..Len(ref_aliases) |-> RefAliasItems(frame, ref_aliases[a], lead_days)])

\* The items generate_report_items(frame) yields, in order (config=None).
generate_report_items(frame) ==
    IF Len(frame) = 0 THEN <<Spacer90, NoDataFound>>
    ELSE <<Spacer90>>
         \o Bind(LAMBDA v : RefAliasesItems(frame, v[2], v[1]),
                 <<get_lead_days_for_display(Unique(Column(frame, "lead_day")), DisplayLeadDays),
                   SortStrings(Unique(Column(frame, "ref_alias")))>>)

----------------------------------------------------------------------------
(* build.py: render_site_from_results, render_site_from_results_dir;       *)
(* html_builder.py: build_site                                             *)

\* A directory is a record: whether it exists, and its files, each a record
\* of a name and a content, in the order glob lists them.  A results file's
\* content is the place it comes from.
NoDirectory == [exists |-> FALSE, files |-> <<>>]

Directory(files) == [exists |-> TRUE, files |-> files]

\* A path of a results file: its name, whether the file exists, its content.
PathOf(file) == [name |-> file.name, exists |-> TRUE, content |-> file.content]

Paths(files) == [i \in 1..Len(files) |-> PathOf(files[i])]

\* Path.glob(prefix + "*" + suffix) on a directory.
Glob(dir, prefix, suffix) ==
    IF dir.exists THEN SelectSeq(dir.files, LAMBDA f : GlobMatch(prefix, suffix, f.name))
    ELSE <<>>

AllBenchmarks(benchmark_files, existing_names) == benchmark_files

\* build.py lines 61-64: the benchmark files whose name no given file has.
NewBenchmarks(benchmark_files, existing_names) ==
    SelectSeq(benchmark_files, LAMBDA bf : bf.name \notin existing_names)

\* build.py lines 55-67: the final list of results files.
ResultsPaths(files, include, package_dir) ==
    IF include /\ package_dir.exists
    THEN files \o Paths(NewBenchmarks(Glob(package_dir, ResultsUnderscore, DotJson),
                                      {files[i].name : i \in 1..Len(files)}))
    ELSE files

RaisesOnlyIfEmpty(paths) == paths = <<>>

\* build.py lines 69-73: whether the checks of the final list raise BuildError.
RaisesBuildError(paths) ==
    paths = <<>> \/ \E i \in 1..Len(paths) : ~paths[i].exists

\* shutil.copy2(src, tmp_results_dir / src.name): a file of that name is
\* overwritten, any other name is a new file.
Copy(dir_files, src) ==
    IF \E i \in 1..Len(dir_files) : dir_files[i].name = src.name
    THEN [i \in 1..Len(dir_files) |->
             IF dir_files[i].name = src.name
             THEN [name |-> src.name, content |-> src.content] ELSE dir_files[i]]
    ELSE Append(dir_files, [name |-> src.name, content |-> src.content])

\* build.py lines 81-82: the temporary directory after the copies.
CopyAll(paths) ==
    LET upto[k \in 0..Len(paths)] ==
            IF k = 0 THEN <<>> ELSE Bind(LAMBDA files : Copy(files, paths[k]), upto[k - 1])
    IN  upto[Len(paths)]

StylesCss == <<"s", "t", "y", "l", "e", "s", ".", "c", "s", "s">>

About == <<"a", "b", "o", "u", "t">>

\* The output directory: whether it exists, and each of its three files as
\* the set of its contents (empty when the file does not exist).  The
\* content of leaderboard.html is the list of the names of the files
\* load_data reads.
NoSite == [exists |-> FALSE, styles_css |-> {}, leaderboard_html |-> {}, about_html |-> {}]

\* html_builder.py lines 202-234; has_styles is styles_css.exists().
build_site(output_dir, results_dir_files, has_styles) ==
    [exists |-> TRUE,
     styles_css |-> IF has_styles THEN {<<StylesCss>>} ELSE output_dir.styles_css,
     leaderboard_html |-> {Column(JsonFiles(results_dir_files), "name")},
     about_html |-> {<<About>>}]

AllJson(dir) == Glob(dir, <<>>, DotJson)

\* build.py lines 107-110: the files of results_*.json, all of *.json when
\* there is none.
ResultFiles(dir) ==
    IF Glob(dir, ResultsUnderscore, DotJson) # <<>>
    THEN Glob(dir, ResultsUnderscore, DotJson)
    ELSE Glob(dir, <<>>, DotJson)

----------------------------------------------------------------------------
(* Inputs of get_lead_days_for_display *)

MaxLeadTime == 4
MaxLabels == 3
MaxMaxCount == 3

\* "day 01": another label whose number is 1
DayZeroOne == <<"d", "a", "y", " ", "0", "1">>

LabelPool ==
    {LeadDayLabel(lt) : lt \in (0 - 2)..MaxLeadTime} \cup {Unknown, DayZeroOne}

MaxCounts == (0 - 1)..MaxMaxCount

\* The report engine before any frame is built or loaded.
ReportIdle ==
    /\ results_dir = <<>>
    /\ df = <<>>
    /\ items = <<>>
    /\ report_pc = "input"

\* The site builder at rest, in the specifications of the other engines.
BuildIdle ==
    /\ user_results_dir = NoDirectory
    /\ package_results_dir = NoDirectory
    /\ output_site_dir = NoSite
    /\ results_files = <<>>
    /\ include_benchmarks = FALSE
    /\ results_paths = <<>>
    /\ tmp_results_dir = <<>>
    /\ raised = ""
    /\ build_pc = "idle"

LeadInit ==
    /\ all_lead_days = <<>>
    /\ max_count \in MaxCounts
    /\ selected = <<>>
    /\ lead_pc = "input"
    /\ ReportIdle
    /\ BuildIdle

\* The caller builds the argument list, one label at a time.
LeadAppend ==
    /\ lead_pc = "input"
    /\ Len(all_lead_days) < MaxLabels
    /\ \E ld \in LabelPool : all_lead_days' = Append(all_lead_days, ld)
    /\ UNCHANGED <<max_count, selected, lead_pc>>
    /\ UNCHANGED report_vars
    /\ UNCHANGED build_vars

\* The call get_lead_days_for_display(all_lead_days, max_count).
LeadCall ==
    /\ lead_pc = "input"
    /\ selected' = get_lead_days_for_display(all_lead_days, max_count)
    /\ lead_pc' = "done"
    /\ UNCHANGED <<all_lead_days, max_count>>
    /\ UNCHANGED report_vars
    /\ UNCHANGED build_vars

LeadNext == LeadAppend \/ LeadCall

SpecLead == LeadInit /\ [][LeadNext]_vars

----------------------------------------------------------------------------
(* Inputs of generate_report_items: frames built row by row *)

MaxRows == 3

Aifs == <<"a", "i", "f", "s">>

Rmse == <<"r", "m", "s", "e">>

Mae == <<"m", "a", "e">>

Glorys == <<"g", "l", "o", "r", "y", "s">>

Argo == <<"a", "r", "g", "o">>

\* "Surface ssh", "ssh 50m" (both of type "ssh") and "sst"
SurfaceSsh == <<"S", "u", "r", "f", "a", "c", "e", " ", "s", "s", "h">>

Ssh50m == <<"s", "s", "h", " ", "5", "0", "m">>

Sst == <<"s", "s", "t">>

Row(model, metric, lead_day, variable, score, ref_alias, dataset) ==
    [model |-> model, metric |-> metric, lead_day |-> lead_day, variable |-> variable,
     score |-> score, ref_alias |-> ref_alias, dataset |-> dataset]

\* Rows of one reference dataset and one metric: two models (each read from
\* the file of its own dataset), two variables, three scores.
TableRows ==
    {Row(m, Rmse, LeadDayLabel(0), v, sc, Glorys, m) :
        m \in {Glonet, Aifs}, v \in {SurfaceSsh, Sst}, sc \in {0, 100, 101}}

\* Rows of one model that differ in reference dataset, metric and variable,
\* and rows of other lead days (an even one, an odd one, none).
GroupRows ==
    {Row(Glonet, mt, LeadDayLabel(0), v, 100, Glorys, Glonet) :
        mt \in {Rmse, Mae}, v \in {SurfaceSsh, Ssh50m, Sst}}
    \cup {Row(Glonet, Rmse, LeadDayLabel(0), v, 100, Argo, Glonet) :
            v \in {SurfaceSsh, Ssh50m, Sst}}
    \cup {Row(Glonet, Rmse, ld, Sst, 100, Glorys, Glonet) :
            ld \in {LeadDayLabel(1), LeadDayLabel(2), Unknown}}

\* The lead-day engine at rest, in the specifications of the report engine.
LeadIdle ==
    /\ all_lead_days = <<>>
    /\ max_count = DisplayLeadDays
    /\ selected = <<>>
    /\ lead_pc = "done"

\* A caller that builds its own frame, with nothing to load.
FrameInit ==
    /\ LeadIdle
    /\ results_dir = <<>>
    /\ df = <<>>
    /\ items = <<>>
    /\ report_pc = "loaded"
    /\ BuildIdle

AddTableRow ==
    /\ report_pc = "loaded"
    /\ Len(df) < MaxRows
    /\ \E r \in TableRows : df' = Append(df, r)
    /\ UNCHANGED <<results_dir, items, report_pc>>
    /\ UNCHANGED lead_vars
    /\ UNCHANGED build_vars

AddGroupRow ==
    /\ report_pc = "loaded"
    /\ Len(df) < MaxRows
    /\ \E r \in GroupRows : df' = Append(df, r)
    /\ UNCHANGED <<results_dir, items, report_pc>>
    /\ UNCHANGED lead_vars
    /\ UNCHANGED build_vars

\* list(generate_report_items(df)): the generator is run to its end.
GenerateReport ==
    /\ report_pc = "loaded"
    /\ items' = generate_report_items(df)
    /\ report_pc' = "reported"
    /\ UNCHANGED <<results_dir, df>>
    /\ UNCHANGED lead_vars
    /\ UNCHANGED build_vars

Next == AddTableRow \/ GenerateReport

Spec == FrameInit /\ [][Next]_vars

GroupsNext == AddGroupRow \/ GenerateReport

SpecGroups == FrameInit /\ [][GroupsNext]_vars

----------------------------------------------------------------------------
(* Inputs of load_data: a results directory written member by member *)

MaxNodes == 5

DotTxt == <<".", "t", "x", "t">>

\* The i-th file of the directory: results_<i>.json, or results_<i>.txt.
FileName(i, is_json) == ResultsUnderscore \o IntToStr(i) \o (IF is_json THEN DotJson ELSE DotTxt)

\* What a new file holds: both keys, one of them, or both under a name that
\* is not *.json.
NewFiles(i) ==
    {[name |-> FileName(i, TRUE), content |-> [dataset |-> {Aifs}, results |-> {<<>>}]],
     [name |-> FileName(i, TRUE), content |-> [dataset |-> {}, results |-> {<<>>}]],
     [name |-> FileName(i, TRUE), content |-> [dataset |-> {Glonet}, results |-> {}]],
     [name |-> FileName(i, FALSE), content |-> [dataset |-> {Glonet}, results |-> {<<>>}]]}

\* A new key of "results": a model with a list of entries, or with a value
\* that is no list.
NewKeys ==
    {[key |-> Glonet, is_list |-> TRUE, entries |-> <<>>],
     [key |-> Aifs, is_list |-> FALSE, entries |-> <<>>]}

\* A new entry: which of "model", "ref_alias" and "lead_time" it has, and
\* what its "result" is.
NewEntries ==
    {[model |-> m, ref_alias |-> ra, lead_time |-> lt, kind |-> k, result |-> <<>>] :
        m \in {{}, {Aifs}}, ra \in {{}}, lt \in {{}}, k \in {"list", "dict"}}
    \cup {[model |-> {}, ref_alias |-> ra, lead_time |-> lt, kind |-> "list", result |-> <<>>] :
            ra \in {{}, {Glorys}}, lt \in {{}, {0}}}
    \cup {[model |-> {Aifs}, ref_alias |-> {Glorys}, lead_time |-> {2}, kind |-> k,
           result |-> <<>>] : k \in {"absent", "other"}}

\* A new element of a list-format result.
NewItems ==
    {[Metric |-> {Rmse}, Variable |-> {Sst}, Value |-> {100}],
     [Metric |-> {Mae}, Variable |-> {SurfaceSsh}, Value |-> {101}],
     [Metric |-> {}, Variable |-> {Sst}, Value |-> {100}],
     [Metric |-> {Rmse}, Variable |-> {}, Value |-> {100}],
     [Metric |-> {Rmse}, Variable |-> {Sst}, Value |-> {}]}

\* The number of files, keys, entries and result elements of a directory.
EntryNodes(entry) ==
    1 + (IF entry.kind = "list" THEN Len(entry.result)
         ELSE IF entry.kind = "dict"
              THEN SumSeq([m \in 1..Len(entry.result) |-> Len(entry.result[m][2])])
              ELSE 0)

KeyNodes(key) == 1 + SumSeq([e \in 1..Len(key.entries) |-> EntryNodes(key.entries[e])])

FileNodes(file) ==
    1 + (IF file.content.results = {} THEN 0
         ELSE LET results == Get(file.content.results, <<>>)
              IN  SumSeq([k \in 1..Len(results) |-> KeyNodes(results[k])]))

DirNodes(dir) == SumSeq([f \in 1..Len(dir) |-> FileNodes(dir[f])])

\* The last file's "results", its last key and that key's last entry, when
\* there is one.
LastResults == Get(results_dir[Len(results_dir)].content.results, <<>>)

LastKey == LastResults[Len(LastResults)]

LastEntry == LastKey.entries[Len(LastKey.entries)]

HasLastKey ==
    /\ results_dir # <<>>
    /\ results_dir[Len(results_dir)].content.results # {}
    /\ LastResults # <<>>

HasLastEntry == HasLastKey /\ LastKey.is_list /\ LastKey.entries # <<>>

WithLastResults(results) ==
    [results_dir EXCEPT ![Len(results_dir)].content.results = {results}]

WithLastKey(key) == WithLastResults([LastResults EXCEPT ![Len(LastResults)] = key])

WithLastEntry(entry) ==
    WithLastKey([LastKey EXCEPT !.entries = [LastKey.entries EXCEPT ![Len(LastKey.entries)] = entry]])

LoadInit ==
    /\ LeadIdle
    /\ ReportIdle
    /\ BuildIdle

WriteFile ==
    /\ report_pc = "input"
    /\ DirNodes(results_dir) < MaxNodes
    /\ \E f \in NewFiles(Len(results_dir) + 1) : results_dir' = Append(results_dir, f)
    /\ UNCHANGED <<df, items, report_pc>>
    /\ UNCHANGED lead_vars
    /\ UNCHANGED build_vars

AddKey ==
    /\ report_pc = "input"
    /\ DirNodes(results_dir) < MaxNodes
    /\ results_dir # <<>>
    /\ results_dir[Len(results_dir)].content.results # {}
    /\ \E k \in NewKeys :
          /\ \A i \in 1..Len(LastResults) : LastResults[i].key # k.key
          /\ results_dir' = WithLastResults(Append(LastResults, k))
    /\ UNCHANGED <<df, items, report_pc>>
    /\ UNCHANGED lead_vars
    /\ UNCHANGED build_vars

AddEntry ==
    /\ report_pc = "input"
    /\ DirNodes(results_dir) < MaxNodes
    /\ HasLastKey
    /\ LastKey.is_list
    /\ \E e \in NewEntries :
          results_dir' = WithLastKey([LastKey EXCEPT !.entries = Append(LastKey.entries, e)])
    /\ UNCHANGED <<df, items, report_pc>>
    /\ UNCHANGED lead_vars
    /\ UNCHANGED build_vars

AddListItem ==
    /\ report_pc = "input"
    /\ DirNodes(results_dir) < MaxNodes
    /\ HasLastEntry
    /\ LastEntry.kind = "list"
    /\ \E it \in NewItems :
          results_dir' = WithLastEntry([LastEntry EXCEPT !.result = Append(LastEntry.result, it)])
    /\ UNCHANGED <<df, items, report_pc>>
    /\ UNCHANGED lead_vars
    /\ UNCHANGED build_vars

\* A new (variable, score) under the last metric of a dict-format result, or
\* under a new metric.
AddDictItem ==
    /\ report_pc = "input"
    /\ DirNodes(results_dir) < MaxNodes
    /\ HasLastEntry
    /\ LastEntry.kind = "dict"
    /\ LET result == LastEntry.result
       IN  \E mt \in {Rmse, Mae}, v \in {Sst, SurfaceSsh} :
              \/ /\ result # <<>>
                 /\ result[Len(result)][1] = mt
                 /\ \A i \in 1..Len(result[Len(result)][2]) : result[Len(result)][2][i][1] # v
                 /\ results_dir' = WithLastEntry([LastEntry EXCEPT !.result =
                        [result EXCEPT ![Len(result)][2] = Append(@, <<v, 100>>)]])
              \/ /\ \A i \in 1..Len(result) : result[i][1] # mt
                 /\ results_dir' = WithLastEntry([LastEntry EXCEPT !.result =
                        Append(result, <<mt, <<<<v, 100>>>>>>)])
    /\ UNCHANGED <<df, items, report_pc>>
    /\ UNCHANGED lead_vars
    /\ UNCHANGED build_vars

\* df = load_data(results_dir)
LoadData ==
    /\ report_pc = "input"
    /\ df' = load_data(results_dir)
    /\ report_pc' = "loaded"
    /\ UNCHANGED <<results_dir, items>>
    /\ UNCHANGED lead_vars
    /\ UNCHANGED build_vars

LoadNext == WriteFile \/ AddKey \/ AddEntry \/ AddListItem \/ AddDictItem \/ LoadData \/ GenerateReport

SpecLoad == LoadInit /\ [][LoadNext]_vars

----------------------------------------------------------------------------
(* Inputs of the site builder: directories, a list of paths, and a call *)

MaxDirFiles == 3

MaxPaths == 2

Scores == <<"s", "c", "o", "r", "e", "s">>

Old == <<"o", "l", "d">>

\* results_1.json, results_2.json, results_1.txt and scores.json
DirNames == {FileName(1, TRUE), FileName(2, TRUE), FileName(1, FALSE), Scores \o DotJson}

PathNames == {FileName(1, TRUE), Scores \o DotJson}

\* The package without benchmarks, or with two of them next to another file.
PackageDirs ==
    {NoDirectory,
     Directory(<<[name |-> FileName(1, TRUE), content |-> "package"],
                 [name |-> Scores \o DotJson, content |-> "package"],
                 [name |-> FileName(3, TRUE), content |-> "package"]>>)}

\* A site of an earlier build.
OldSite ==
    [exists |-> TRUE, styles_css |-> {<<Old>>}, leaderboard_html |-> {<<Old>>},
     about_html |-> {}]

BuildInit ==
    /\ LeadIdle
    /\ ReportIdle
    /\ user_results_dir \in {NoDirectory, Directory(<<>>)}
    /\ package_results_dir \in PackageDirs
    /\ output_site_dir \in {NoSite, OldSite}
    /\ results_files = <<>>
    /\ include_benchmarks = FALSE
    /\ results_paths = <<>>
    /\ tmp_results_dir = <<>>
    /\ raised = ""
    /\ build_pc = "input"

\* A new file in the user's results directory.
AddDirFile ==
    /\ build_pc = "input"
    /\ user_results_dir.exists
    /\ Len(user_results_dir.files) < MaxDirFiles
    /\ \E name \in DirNames :
          /\ \A i \in 1..Len(user_results_dir.files) : user_results_dir.files[i].name # name
          /\ user_results_dir' =
                 Directory(Append(user_results_dir.files, [name |-> name, content |-> "user"]))
    /\ UNCHANGED <<package_results_dir, output_site_dir, results_files, include_benchmarks,
                   results_paths, tmp_results_dir, raised, build_pc>>
    /\ UNCHANGED <<lead_vars, report_vars>>

\* A new path in the list the caller hands to render_site_from_results.
AddResultsFile ==
    /\ build_pc = "input"
    /\ Len(results_files) < MaxPaths
    /\ \E name \in PathNames, exists \in BOOLEAN :
          results_files' =
              Append(results_files, [name |-> name, exists |-> exists, content |-> "given"])
    /\ UNCHANGED <<user_results_dir, package_results_dir, output_site_dir, include_benchmarks,
                   results_paths, tmp_results_dir, raised, build_pc>>
    /\ UNCHANGED <<lead_vars, report_vars>>

\* build.py lines 55-83: the body of render_site_from_results.
Render(files, include, has_styles) ==
    /\ include_benchmarks' = include
    /\ results_paths' = ResultsPaths(files, include, package_results_dir)
    /\ IF RaisesBuildError(results_paths')
       THEN /\ raised' = "BuildError"
            /\ UNCHANGED <<tmp_results_dir, output_site_dir>>
       ELSE /\ raised' = ""
            /\ tmp_results_dir' = CopyAll(results_paths')
            /\ output_site_dir' = build_site(output_site_dir, tmp_results_dir', has_styles)

RenderSiteFromResults ==
    /\ build_pc = "input"
    /\ \E include \in BOOLEAN, has_styles \in BOOLEAN :
          Render(results_files, include, has_styles)
    /\ build_pc' = "render_site_from_results"
    /\ UNCHANGED <<user_results_dir, package_results_dir, results_files>>
    /\ UNCHANGED <<lead_vars, report_vars>>

\* build.py lines 94-121.
RenderSiteFromResultsDir ==
    /\ build_pc = "input"
    /\ \E include \in BOOLEAN, has_styles \in BOOLEAN :
          IF ~user_results_dir.exists
          THEN /\ raised' = "BuildError"
               /\ include_benchmarks' = include
               /\ UNCHANGED <<results_files, results_paths, tmp_results_dir, output_site_dir>>
          ELSE /\ results_files' = Paths(ResultFiles(user_results_dir))
               /\ Render(results_files', include, has_styles)
    /\ build_pc' = "render_site_from_results_dir"
    /\ UNCHANGED <<user_results_dir, package_results_dir>>
    /\ UNCHANGED <<lead_vars, report_vars>>

BuildNext == AddDirFile \/ AddResultsFile \/ RenderSiteFromResults \/ RenderSiteFromResultsDir

SpecBuild == BuildInit /\ [][BuildNext]_vars

----------------------------------------------------------------------------
(* Claims about get_lead_days_for_display *)

LabelsOf(seq) == {seq[i] : i \in 1..Len(seq)}

NoLabelTwice(seq) == \A i, j \in 1..Len(seq) : i # j => seq[i] # seq[j]

\* The numbers of the labels of a list, -1 for a label without a digit.
NumbersOf(seq) == [i \in 1..Len(seq) |-> IF HasNumber(seq[i]) THEN NumberOf(seq[i]) ELSE 0 - 1]

HasLeadDayOne(seq) == \E i \in 1..Len(seq) : NumbersOf(seq)[i] = 1

C3_LimitAndNoDuplicate ==
    (lead_pc = "done" /\ max_count >= 0)
        => (Len(selected) <= max_count /\ NoLabelTwice(selected))

\* C3 amended: for every list of labels and every max_count >= 0, the returned
\* list has at most max_count entries, and it contains no label twice when the
\* given list contains no label twice (which is what unique() hands over).
C3_LimitAndNoDuplicateOfDistinct ==
    (lead_pc = "done" /\ max_count >= 0)
        => /\ Len(selected) <= max_count
           /\ NoLabelTwice(all_lead_days) => NoLabelTwice(selected)

C3_Witness ==
    /\ lead_pc = "done"
    /\ max_count = 2
    /\ NoLabelTwice(all_lead_days)
    /\ LET n == NumbersOf(all_lead_days)
       IN  Cardinality({i \in 1..Len(all_lead_days) : n[i] % 2 = 1 /\ n[i] > 0}) = 3
    /\ Len(selected) = 2

\* C4: for labels with pairwise distinct numbers, every returned label has an
\* odd number, labels without a number are never returned, the result is in
\* ascending numeric order, and no omitted odd-numbered label has a smaller
\* number than a returned one.
C4_SmallestOddLeadDays ==
    LET n == NumbersOf(all_lead_days)
        r == NumbersOf(selected)
    IN  (/\ lead_pc = "done"
         /\ \A i, j \in 1..Len(all_lead_days) : (i # j /\ n[i] >= 0) => n[i] # n[j])
        => /\ \A i \in 1..Len(selected) :
                /\ selected[i] \in LabelsOf(all_lead_days)
                /\ r[i] >= 0
                /\ r[i] % 2 = 1
           /\ \A i, j \in 1..Len(selected) : i < j => r[i] < r[j]
           /\ \A i \in 1..Len(all_lead_days) :
                (all_lead_days[i] \notin LabelsOf(selected) /\ n[i] >= 0 /\ n[i] % 2 = 1)
                    => \A j \in 1..Len(selected) : r[j] < n[i]

C4_Witness ==
    /\ lead_pc = "done"
    /\ max_count = 2
    /\ Len(all_lead_days) = 3
    /\ LET n == NumbersOf(all_lead_days)
       IN  n[1] = 5 /\ n[2] = 3 /\ n[3] = 1
    /\ selected = <<all_lead_days[3], all_lead_days[2]>>

----------------------------------------------------------------------------
(* Claims about generate_report_items *)

StylerItems == {i \in 1..Len(items) : items[i].type = "styler"}

\* The percent difference pd of a score s to a reference score ref, as
\* (s - ref) / ref * 100 gives it in float arithmetic.
IsPercentDiff(pd, s, ref) ==
    IF ~IsFrac(s) \/ ~IsFrac(ref) THEN pd = NaN
    ELSE IF ref[1] # 0
         THEN /\ IsFrac(pd)
              /\ pd[1] * s[2] * ref[1] = 100 * pd[2] * (s[1] * ref[2] - ref[1] * s[2])
         ELSE IF s[1] = 0 THEN pd = NaN
         ELSE pd = (IF s[1] > 0 THEN Inf ELSE NegInf)

\* The mean of the scores of a model in a column of the frame, as a pair
\* <<sum, count>>.
MeanScore(model, column) ==
    LET rows == {i \in 1..Len(df) : /\ df[i].model = model
                                    /\ df[i].variable = column[1]
                                    /\ df[i].lead_day = column[2]}
        sum[n \in 0..Len(df)] ==
            IF n = 0 THEN 0 ELSE sum[n - 1] + (IF n \in rows THEN df[n].score ELSE 0)
    IN  <<sum[Len(df)], Cardinality(rows)>>

\* C1: in every table whose model index contains the reference model, the
\* score of each cell is the mean score of its model in its column, the
\* percent difference of the cell of model m in column c is
\* (score[m, c] - score[ref, c]) / score[ref, c] * 100, and it is 0 in every
\* cell of the reference row whose score is not zero.
C1_PercentDiffToReference ==
    report_pc = "reported" =>
        \A i \in StylerItems :
            LET t == items[i]
            IN  t.bold \in Range(t.index) =>
                    \A m \in Range(t.index), c \in Range(t.columns) :
                        /\ LET mean == MeanScore(m, c)
                           IN  IF mean[2] = 0 THEN t.values[m][c] = NaN
                               ELSE /\ IsFrac(t.values[m][c])
                                    /\ t.values[m][c][1] * mean[2] = mean[1] * t.values[m][c][2]
                        /\ IsPercentDiff(t.percent_diff[m][c], t.values[m][c], t.values[t.bold][c])
                        /\ (m = t.bold /\ IsFrac(t.values[m][c]) /\ t.values[m][c][1] # 0)
                               => t.percent_diff[m][c] = <<0, 1>>

\* A table of two models in which aifs scores 101 where the reference model
\* glonet scores 100: one percent above it.
C1_Witness ==
    /\ report_pc = "reported"
    /\ \E i \in StylerItems :
          /\ items[i].bold = Glonet
          /\ items[i].index = <<Glonet, Aifs>>
          /\ \E c \in Range(items[i].columns) :
                /\ items[i].values[Glonet][c] = <<100, 1>>
                /\ items[i].values[Aifs][c] = <<101, 1>>
                /\ items[i].percent_diff[Aifs][c] = <<1, 1>>
                /\ items[i].percent_diff[Glonet][c] = <<0, 1>>

\* C12: in a table whose model index does not contain the reference model,
\* no cell receives a background-color style.
C12_NoColoringWithoutReference ==
    report_pc = "reported" =>
        \A i \in StylerItems :
            items[i].bold \notin Range(items[i].index) =>
                \A m \in Range(items[i].index), c \in Range(items[i].columns) :
                    items[i].style[m][c] # "background-color"

\* The percent differences of a table in the rows of the models other than
\* the reference model, without the missing ones.
NonReferenceDiffs(t) ==
    {d \in {t.percent_diff[m][c] :
                m \in Range(t.index) \ {t.bold}, c \in Range(t.columns)} : d # NaN}

C5_TypedItemsAfterSpacer ==
    report_pc = "reported" =>
        /\ Len(items) >= 1
        /\ items[1].type = "markdown"
        /\ items[1].template = "<div style=\"height: 90px;\"></div>"
        /\ items[1].arg = <<>>
        /\ \A i \in 1..Len(items) : items[i].type \in {"markdown", "styler"}

C5_Witness ==
    /\ report_pc = "reported"
    /\ Len(df) = 3
    /\ Cardinality(StylerItems) = 2
    /\ Cardinality({i \in 1..Len(items) : items[i].type = "markdown"}) > 5

RefHeader == "## Reference dataset: {ref_alias}"

MetricHeader == "### Metric: {metric_name}"

GroupHeader == "#### {var_type} Variables"

\* The positions of the headers of one kind among the items from..to.
HeadersIn(template, from, to) ==
    {i \in from..to : items[i].type = "markdown" /\ items[i].template = template}

\* The last position of the section a header at position i opens: the
\* position before the next header of one of the given kinds.
SectionEnd(i, templates) ==
    LET next == {j \in (i + 1)..Len(items) :
                    items[j].type = "markdown" /\ items[j].template \in templates}
    IN  IF next = {} THEN Len(items) ELSE (CHOOSE j \in next : \A k \in next : j <= k) - 1

\* Exactly one header of the kind per key, its text built from the key, and
\* the headers in the ascending order of their keys.
OneHeaderPerKey(headers, keys, Text(_)) ==
    /\ Cardinality(headers) = Cardinality(keys)
    /\ \A k \in keys : \E i \in headers : items[i].arg = Text(k)
    /\ \A i, j \in headers :
          i < j => \E k1, k2 \in keys : /\ items[i].arg = Text(k1)
                                        /\ items[j].arg = Text(k2)
                                        /\ StrLess(k1, k2)

\* Exactly one group header per variable type.
OneHeaderPerType(headers, types) ==
    /\ Cardinality(headers) = Cardinality(types)
    /\ \A ty \in types : \E i \in headers : items[i].arg = Title(ty)

\* The variable groups of one metric of one reference dataset.
GroupsOf(ref_alias, metric) ==
    VariablesByType(sort_variables_by_type_and_depth(Unique(Column(
        SelectSeq(df, LAMBDA r : r.ref_alias = ref_alias /\ r.metric = metric),
        "variable"))))

\* Every variable is in exactly one group, at exactly one place.
InOneGroup(variables, groups) ==
    \A v \in variables :
        Cardinality({<<g, k>> \in (1..Len(groups)) \X (1..Len(df)) :
                        k <= Len(groups[g][2]) /\ groups[g][2][k] = v}) = 1

\* C8: the items hold exactly one reference header per distinct ref_alias, in
\* ascending order; under each, exactly one metric header per distinct metric
\* of that ref_alias, in ascending order; under each, exactly one group header
\* per distinct variable type; and every variable of that (ref_alias, metric)
\* is in exactly one variable group.
C8_GroupedByReferenceMetricType ==
    (report_pc = "reported" /\ Len(df) > 0) =>
        LET rows == 1..Len(df)
            ref_headers == HeadersIn(RefHeader, 1, Len(items))
        IN  /\ OneHeaderPerKey(ref_headers, {df[k].ref_alias : k \in rows}, Upper)
            /\ \A i \in ref_headers :
                  LET of_ref == {k \in rows : Upper(df[k].ref_alias) = items[i].arg}
                      metric_headers ==
                          HeadersIn(MetricHeader, i + 1, SectionEnd(i, {RefHeader}))
                  IN  /\ OneHeaderPerKey(metric_headers, {df[k].metric : k \in of_ref},
                                         LAMBDA m : DictGet(METRICS_NAMES, m, m))
                      /\ \A j \in metric_headers :
                            LET of_metric ==
                                    {k \in of_ref :
                                        DictGet(METRICS_NAMES, df[k].metric, df[k].metric)
                                            = items[j].arg}
                                any == CHOOSE k \in of_metric : TRUE
                                variables == {df[k].variable : k \in of_metric}
                            IN  /\ OneHeaderPerType(
                                       HeadersIn(GroupHeader, j + 1,
                                                 SectionEnd(j, {RefHeader, MetricHeader})),
                                       {get_variable_type(v) : v \in variables})
                                /\ InOneGroup(variables,
                                              GroupsOf(df[any].ref_alias, df[any].metric))

\* Rows given in the descending order of their reference datasets and of
\* their metrics: two reference headers, and two metric headers under GLORYS.
C8_Witness ==
    /\ report_pc = "reported"
    /\ Len(df) = 3
    /\ df[1].ref_alias = Glorys /\ df[1].metric = Rmse
    /\ df[2].ref_alias = Glorys /\ df[2].metric = Mae
    /\ df[3].ref_alias = Argo
    /\ LET ref_headers == HeadersIn(RefHeader, 1, Len(items))
       IN  /\ Cardinality(ref_headers) = 2
           /\ \E i, j \in ref_headers :
                 /\ i < j
                 /\ items[i].arg = Upper(Argo)
                 /\ items[j].arg = Upper(Glorys)
                 /\ Cardinality(HeadersIn(MetricHeader, j + 1, Len(items))) = 2
                 /\ Cardinality(HeadersIn(GroupHeader, j + 1, Len(items))) = 2

----------------------------------------------------------------------------
(* Claims about load_data *)

\* The number of items of an entry's result: the elements of a list, the
\* (metric, variable) pairs of a dict, none of an absent or another result.
ResultItems(entry) ==
    IF entry.kind = "list" THEN Len(entry.result)
    ELSE IF entry.kind = "dict"
         THEN Cardinality({<<m, v>> \in (1..Len(entry.result)) \X (1..MaxNodes) :
                              v <= Len(entry.result[m][2])})
         ELSE 0

\* The files load_data reads that have both keys.
FilesWithBothKeys ==
    {f \in 1..Len(results_dir) :
        /\ Len(results_dir[f].name) >= 5
        /\ SubSeq(results_dir[f].name, Len(results_dir[f].name) - 4,
                  Len(results_dir[f].name)) = <<".", "j", "s", "o", "n">>
        /\ results_dir[f].content.dataset # {}
        /\ results_dir[f].content.results # {}}

\* The entries of the directory that load_data reads, as <<f, k, e>>: the
\* e-th entry of the k-th key of "results" in the f-th file.
EntriesRead ==
    {fke \in FilesWithBothKeys \X (1..MaxNodes) \X (1..MaxNodes) :
        LET results == CHOOSE r \in results_dir[fke[1]].content.results : TRUE
        IN  /\ fke[2] <= Len(results)
            /\ results[fke[2]].is_list
            /\ fke[3] <= Len(results[fke[2]].entries)}

EntryAt(fke) ==
    (CHOOSE r \in results_dir[fke[1]].content.results : TRUE)[fke[2]].entries[fke[3]]

KeyAt(fke) == (CHOOSE r \in results_dir[fke[1]].content.results : TRUE)[fke[2]].key

DatasetAt(fke) == CHOOSE d \in results_dir[fke[1]].content.dataset : TRUE

\* The rows of the frame that carry the dataset, the model and the ref_alias
\* expected of the entry.
RowsOfEntry(fke) ==
    {i \in 1..Len(df) :
        /\ df[i].dataset = DatasetAt(fke)
        /\ df[i].model = (IF EntryAt(fke).model = {} THEN KeyAt(fke)
                          ELSE CHOOSE m \in EntryAt(fke).model : TRUE)
        /\ df[i].ref_alias = (IF EntryAt(fke).ref_alias = {} THEN Unknown
                              ELSE CHOOSE r \in EntryAt(fke).ref_alias : TRUE)}

\* The entries read before an entry, in the order of the files, keys and entries.
EntriesBefore(fke) ==
    {x \in EntriesRead :
        \/ x[1] < fke[1]
        \/ x[1] = fke[1] /\ x[2] < fke[2]
        \/ x[1] = fke[1] /\ x[2] = fke[2] /\ x[3] < fke[3]}

\* The number of result items of a set of entries.
ItemsOf(entries) ==
    Cardinality({<<x, n>> \in entries \X (1..MaxNodes) : n <= ResultItems(EntryAt(x))})

\* C6: when the results directory yields no rows (no *.json file, or only
\* files that lack "dataset" or "results", or only results without items),
\* load_data returns the empty frame, and generate_report_items yields
\* exactly two markdown items on it: the 90px spacer, then the no-data message.
C6_EmptyDirectoryTwoItems ==
    (report_pc # "input" /\ \A x \in EntriesRead : ResultItems(EntryAt(x)) = 0) =>
        /\ df = <<>>
        /\ report_pc = "reported" =>
              /\ Len(items) = 2
              /\ items[1].type = "markdown"
              /\ items[1].template = "<div style=\"height: 90px;\"></div>"
              /\ items[2].type = "markdown"
              /\ items[2].template = "## Aucune donnee trouvee dans les fichiers JSON"

\* A directory whose only file has result items but no "dataset" key.
C6_Witness ==
    /\ report_pc = "reported"
    /\ Len(results_dir) = 1
    /\ results_dir[1].content.dataset = {}
    /\ results_dir[1].content.results # {}
    /\ LET results == CHOOSE r \in results_dir[1].content.results : TRUE
       IN  /\ Len(results) = 1
           /\ Len(results[1].entries) = 1
           /\ results[1].entries[1].kind = "list"
           /\ Len(results[1].entries[1].result) = 2
    /\ df = <<>>
    /\ Len(items) = 2

\* C7: the frame has exactly one row per result item of the files that have
\* both keys: the rows of an entry follow the rows of the entries read before
\* it, as many as its result has items, and each carries the file's dataset,
\* the entry's model (the key under "results" when it has none) and the
\* entry's ref_alias ("unknown" when it has none); no other row exists, so a
\* file that lacks a key contributes none.
C7_OneRowPerResultItem ==
    report_pc # "input" =>
        /\ Len(df) = ItemsOf(EntriesRead)
        /\ \A x \in EntriesRead :
              \A i \in 1..Len(df) :
                  (ItemsOf(EntriesBefore(x)) < i
                      /\ i <= ItemsOf(EntriesBefore(x)) + ResultItems(EntryAt(x)))
                  => i \in RowsOfEntry(x)

\* A file of the dataset aifs whose key glonet holds one entry that names
\* neither its model nor its ref_alias, and a file without "results".
C7_Witness ==
    /\ report_pc = "loaded"
    /\ Len(results_dir) = 2
    /\ results_dir[1].content.dataset = {Aifs}
    /\ results_dir[2].content.results = {}
    /\ Len(df) = 1
    /\ df[1].dataset = Aifs
    /\ df[1].model = Glonet
    /\ df[1].ref_alias = Unknown

----------------------------------------------------------------------------
(* Claims about the site builder *)

\* C9: a call whose final list of results files is empty, or holds a file
\* that does not exist, raises BuildError, leaves the output directory as it
\* was (not created, not modified) and copies no file.
C9_RaisesBeforeAnyWrite ==
    [][(/\ build_pc = "input"
        /\ build_pc' # "input"
        /\ \/ results_paths' = <<>>
           \/ \E i \in 1..Len(results_paths') : ~results_paths'[i].exists)
       => /\ raised' = "BuildError"
          /\ output_site_dir' = output_site_dir
          /\ tmp_results_dir' = <<>>]_vars

\* A list of two files, the second of which does not exist, and the site of
\* an earlier build.
C9_Witness ==
    /\ build_pc = "render_site_from_results"
    /\ raised = "BuildError"
    /\ Len(results_files) = 2
    /\ results_files[1].exists
    /\ ~results_files[2].exists
    /\ results_paths = results_files
    /\ output_site_dir = OldSite
    /\ tmp_results_dir = <<>>

\* The names of the files of a list.
NamesOf(files) == {files[i].name : i \in 1..Len(files)}

EndsWithDotJson(name) ==
    /\ Len(name) >= 5
    /\ SubSeq(name, Len(name) - 4, Len(name)) = <<".", "j", "s", "o", "n">>

StartsWithResults(name) ==
    /\ Len(name) >= 8
    /\ SubSeq(name, 1, 8) = <<"r", "e", "s", "u", "l", "t", "s", "_">>

\* The names of the directory that are to be rendered: those of
\* results_*.json, or those of *.json when there is none.
NamesToRender ==
    LET names == NamesOf(user_results_dir.files)
        matching == {n \in names : Len(n) >= 13 /\ StartsWithResults(n) /\ EndsWithDotJson(n)}
    IN  IF matching # {} THEN matching ELSE {n \in names : EndsWithDotJson(n)}

\* C10: render_site_from_results_dir raises BuildError when the directory
\* does not exist; otherwise the files of the directory that it hands over,
\* copies and renders are exactly those of results_*.json, or those of
\* *.json when no file matches results_*.json, and it raises only when
\* there is no file to render.
C10_RendersResultsFilesElseAllJson ==
    build_pc = "render_site_from_results_dir" =>
        IF ~user_results_dir.exists THEN raised = "BuildError"
        ELSE /\ NamesOf(results_files) = NamesToRender
             /\ raised = "BuildError" => NamesToRender = {}
             /\ raised = "" =>
                   /\ {tmp_results_dir[i].name :
                          i \in {k \in 1..Len(tmp_results_dir) :
                                    tmp_results_dir[k].content = "user"}} = NamesToRender
                   /\ \E rendered \in output_site_dir.leaderboard_html :
                         /\ Range(rendered) \cap NamesOf(user_results_dir.files)
                                = NamesToRender
                         /\ ~include_benchmarks => Range(rendered) = NamesToRender

\* A directory of results_1.json, scores.json and results_1.txt: only
\* results_1.json is rendered.
C10_Witness ==
    /\ build_pc = "render_site_from_results_dir"
    /\ raised = ""
    /\ ~include_benchmarks
    /\ NamesOf(user_results_dir.files)
           = {FileName(1, TRUE), FileName(1, FALSE), Scores \o DotJson}
    /\ output_site_dir.leaderboard_html = {<<FileName(1, TRUE)>>}

\* The bundled benchmark files: the files of the package's results
\* directory that are named results_*.json.
BenchmarkNames ==
    {n \in NamesOf(package_results_dir.files) :
        Len(n) >= 13 /\ StartsWithResults(n) /\ EndsWithDotJson(n)}

\* The positions of the final list that hold a file of the package.
Appended == {i \in 1..Len(results_paths) : results_paths[i].content = "package"}

\* C11: with include_benchmarks the final list is the given list followed by
\* bundled benchmark files only; a benchmark is appended once when no given
\* file has its name and not at all when one has; a given name is rendered
\* from a given file, never from the package; and an empty given list is
\* accepted when the package has a benchmark.
C11_BenchmarksWithoutDuplicates ==
    (build_pc \in {"render_site_from_results", "render_site_from_results_dir"}
        /\ include_benchmarks /\ (build_pc = "render_site_from_results_dir" => user_results_dir.exists))
    => /\ Len(results_paths) >= Len(results_files)
       /\ SubSeq(results_paths, 1, Len(results_files)) = results_files
       /\ Appended = (Len(results_files) + 1)..Len(results_paths)
       /\ \A i \in Appended : results_paths[i].name \in BenchmarkNames
       /\ \A n \in BenchmarkNames :
             Cardinality({i \in Appended : results_paths[i].name = n})
                 = (IF n \in NamesOf(results_files) THEN 0 ELSE 1)
       /\ raised = "" =>
             \A n \in NamesOf(results_files) :
                 /\ \E k \in 1..Len(tmp_results_dir) : tmp_results_dir[k].name = n
                 /\ \A k \in 1..Len(tmp_results_dir) :
                       tmp_results_dir[k].name = n => tmp_results_dir[k].content # "package"
       /\ (results_files = <<>> /\ BenchmarkNames # {}) =>
             /\ raised = ""
             /\ output_site_dir.leaderboard_html
                    = {[k \in 1..Len(results_paths) |-> results_paths[k].name]}

\* The caller gives results_1.json; the package holds results_1.json and
\* results_3.json: the given results_1.json and the bundled results_3.json
\* are rendered.
C11_Witness ==
    /\ build_pc = "render_site_from_results"
    /\ include_benchmarks
    /\ raised = ""
    /\ Len(results_files) = 1
    /\ results_files[1].name = FileName(1, TRUE)
    /\ BenchmarkNames = {FileName(1, TRUE), FileName(3, TRUE)}
    /\ tmp_results_dir = <<[name |-> FileName(1, TRUE), content |-> "given"],
                           [name |-> FileName(3, TRUE), content |-> "package"]>>

====
